---- MODULE Spec2Model ----
(***************************************************************************)
(* tinypipe: a fixed-capacity single-producer / single-consumer byte pipe  *)
(* of length-prefixed frames (src/tinypipe.c, src/tinypipe.h).             *)
(*                                                                         *)
(* The arena is modelled byte by byte.  Pointers are byte offsets from     *)
(* q->buffer.  A 4-byte header is an int32 stored little-endian (the       *)
(* byte order of the targets the fence selection of tinypipe.c names).     *)
(***************************************************************************)
EXTENDS Integers, Sequences, FiniteSets, TLC

VARIABLES
  q,        \* the TinyPipe struct: buffer, writeHead, readHead, len, remainingBytes
  ppc,      \* producer: position in its current call
  pl,       \* producer: locals of the current call (bytesToWrite, oldWriteHead, readHead, data)
  cpc,      \* consumer: position in its call protocol
  cl,       \* consumer: locals (last hasData result, numBytes and bytes of getReadBuffer)
  pending,  \* history: frames published and not yet consumed, oldest first
  last,     \* history: the last completed public call and its return value
  status,   \* "ok", "aborted" (an assert failed) or "ub" (a load outside the arena)
  scen      \* history: progress through the init(32)/write 20/write 20/consume script

vars == <<q, ppc, pl, cpc, cl, pending, last, status, scen>>

\* ------------------------------------------------------------------ bounds

\* the capacities init is called with: a small arena that fills and wraps
\* within a few frames, and the arena of the 20-byte write scenario
SmallCap == 16
ScenarioCap == 32
Capacities == {SmallCap, ScenarioCap}

\* payload lengths the producer asks for: every length of 0..MaxLen in the
\* small arena, the scenario's length in the scenario's arena
MaxLen == 4
ScenarioLen == 20
Lens(numBytes) == IF numBytes = ScenarioCap THEN {ScenarioLen} ELSE 0..MaxLen

\* every payload byte of a frame is one value of 1..MaxData
MaxData == 2
Data == 1..MaxData

\* content of the malloc'ed arena before init stores into it
Garbage == {0, 255}

\* ------------------------------------------------------------------ constants

HLP_STOP == 0
HLP_LOOP == -1
SizeofInt32 == 4
NULL == -1

\* ------------------------------------------------------------------ memory

Byte == 0..255

\* the four little-endian bytes of the int32 b
Int32Bytes(b) ==
  LET lo == b % 16777216
      hi == ((b - lo) \div 16777216) % 256
  IN  <<lo % 256, (lo \div 256) % 256, (lo \div 65536) % 256, hi>>

\* the int32 of four little-endian bytes
BytesInt32(s) ==
  s[1] + 256 * s[2] + 65536 * s[3]
    + 16777216 * (IF s[4] >= 128 THEN s[4] - 256 ELSE s[4])

\* a 4-byte access at offset a lies inside an arena of len bytes
InArena(len, a) == a >= 0 /\ a + SizeofInt32 <= len

TPIPE_GET_INT32_AT_BUFFER(buf, a) ==
  BytesInt32(<<buf[a], buf[a + 1], buf[a + 2], buf[a + 3]>>)

TPIPE_SET_INT32_AT_BUFFER(buf, a, b) ==
  [i \in DOMAIN buf |->
     IF i >= a /\ i < a + SizeofInt32 THEN Int32Bytes(b)[i - a + 1] ELSE buf[i]]

\* memcpy(dst, data, n) into the arena
Memcpy(buf, dst, data) ==
  [i \in DOMAIN buf |->
     IF i >= dst /\ i < dst + Len(data) THEN data[i - dst + 1] ELSE buf[i]]

\* memset(buffer, 0, len)
Memset0(buf) == [i \in DOMAIN buf |-> 0]

\* the n bytes at offset a
BytesAt(buf, a, n) == [i \in 1..n |-> buf[a + i - 1]]

Repeat(d, n) == [i \in 1..n |-> d]

\* ------------------------------------------------------------------ tpipe_init

\* the struct after tpipe_init(q, numBytes), the malloc'ed arena holding g
tpipe_init(numBytes, g) ==
  [buffer         |-> TPIPE_SET_INT32_AT_BUFFER([i \in 0..(numBytes - 1) |-> g], 0, HLP_STOP),
   writeHead      |-> 0,
   readHead       |-> 0,
   len            |-> numBytes,
   remainingBytes |-> numBytes]

\* ------------------------------------------------------------------ tpipe_hasData

hasData_jump_mutant(qq) == [qq EXCEPT !.readHead = qq.readHead + SizeofInt32]

hasData_jump(qq) == [qq EXCEPT !.readHead = 0]

\* [q |-> the struct afterwards, ret |-> the value returned]
tpipe_hasData(qq) ==
  LET x == TPIPE_GET_INT32_AT_BUFFER(qq.buffer, qq.readHead)
  IN  IF x = HLP_LOOP
        THEN LET q2 == hasData_jump(qq)
             IN  [q |-> q2, ret |-> TPIPE_GET_INT32_AT_BUFFER(q2.buffer, q2.readHead)]
        ELSE [q |-> qq, ret |-> x]

\* ------------------------------------------------------------------ tpipe_getWriteBuffer

\* int totalByteRequirement = bytesToWrite + 2 * sizeof(int32_t), narrowed to int
TotalByteRequirement(bytesToWrite) ==
  IF bytesToWrite > 2147483647 - 2 * SizeofInt32
    THEN ((bytesToWrite - 2147483647) + (2 * SizeofInt32 - 1)) - 2147483647 - 1
    ELSE bytesToWrite + 2 * SizeofInt32

TailFits(qq, total) == total <= qq.remainingBytes

TailOverwrite(oldWriteHead, newWriteHead, readHead) ==
  (oldWriteHead < readHead) /\ (newWriteHead >= readHead)

WrapFits(qq, total) == total <= qq.len

WrapOverwriteMutant(oldWriteHead, total, readHead) ==
  (oldWriteHead < readHead) \/ (0 + total > readHead + SizeofInt32)

WrapOverwrite(oldWriteHead, total, readHead) ==
  (oldWriteHead < readHead) \/ (0 + total > readHead)

\* newWriteHead = oldWriteHead + sizeof(int32_t) + bytesToWrite: pointer
\* arithmetic, wider than int; an address past every arena offset is kept as
\* the largest offset the model can hold, which compares the same with readHead
NewWriteHead(oldWriteHead, bytesToWrite) ==
  IF bytesToWrite > 2147483647 - SizeofInt32 - oldWriteHead
    THEN 2147483647
    ELSE oldWriteHead + SizeofInt32 + bytesToWrite

\* which way the call goes, given the read head it loaded: "tail", "wrap" or "null"
gwb_decide(qq, readHead, bytesToWrite) ==
  LET oldWriteHead == qq.writeHead
      total == TotalByteRequirement(bytesToWrite)
  IN  IF TailFits(qq, total)
        THEN IF TailOverwrite(oldWriteHead, NewWriteHead(oldWriteHead, bytesToWrite), readHead)
               THEN "null" ELSE "tail"
        ELSE IF WrapFits(qq, total)
               THEN IF WrapOverwrite(oldWriteHead, total, readHead) THEN "null" ELSE "wrap"
               ELSE "null"

wrap_reset_mutant(qq) == [qq EXCEPT !.writeHead = 0]

\* q->writeHead = q->buffer; q->remainingBytes = q->len
wrap_reset(qq) == [qq EXCEPT !.writeHead = 0, !.remainingBytes = qq.len]

\* one store of the wrap path
wrap_store(label, qq, oldWriteHead) ==
  IF label = "w_stop"
    THEN [qq EXCEPT !.buffer = TPIPE_SET_INT32_AT_BUFFER(qq.buffer, 0, HLP_STOP)]
    ELSE [qq EXCEPT !.buffer = TPIPE_SET_INT32_AT_BUFFER(qq.buffer, oldWriteHead, HLP_LOOP)]

wrap_order_mutant == <<"w_loop", "w_stop">>

\* program order of the two stores of the wrap path, around the fence
wrap_order == <<"w_stop", "w_loop">>

tpipe_getWriteBuffer_mutant(qq, bytesToWrite) ==
  LET way == gwb_decide(qq, qq.readHead, bytesToWrite)
      oldWriteHead == qq.writeHead
      total == TotalByteRequirement(bytesToWrite)
  IN  IF way = "tail" THEN [q |-> qq, ret |-> oldWriteHead + SizeofInt32]
      ELSE IF way = "wrap"
        THEN [q |-> wrap_store(wrap_order[2],
                       wrap_store(wrap_order[1], wrap_reset(qq), oldWriteHead),
                       oldWriteHead),
              ret |-> 0 + SizeofInt32]
        ELSE IF ~TailFits(qq, total) /\ WrapFits(qq, total)
               THEN [q |-> wrap_reset(qq), ret |-> NULL]
               ELSE [q |-> qq, ret |-> NULL]

\* [q |-> the struct afterwards, ret |-> offset of the granted buffer, or NULL]
tpipe_getWriteBuffer(qq, bytesToWrite) ==
  LET way == gwb_decide(qq, qq.readHead, bytesToWrite)
      oldWriteHead == qq.writeHead
  IN  IF way = "tail" THEN [q |-> qq, ret |-> oldWriteHead + SizeofInt32]
      ELSE IF way = "wrap"
        THEN [q |-> wrap_store(wrap_order[2],
                       wrap_store(wrap_order[1], wrap_reset(qq), oldWriteHead),
                       oldWriteHead),
              ret |-> 0 + SizeofInt32]
        ELSE [q |-> qq, ret |-> NULL]

\* ------------------------------------------------------------------ tpipe_produce

produce_assert_mutant(qq, numBytes) == qq.remainingBytes > numBytes + 2 * SizeofInt32

produce_assert(qq, numBytes) == qq.remainingBytes >= numBytes + 2 * SizeofInt32

\* q->remainingBytes -= ...; q->writeHead += ...
produce_advance(qq, numBytes) ==
  [qq EXCEPT !.remainingBytes = qq.remainingBytes - (SizeofInt32 + numBytes),
             !.writeHead = qq.writeHead + (SizeofInt32 + numBytes)]

\* one store of produce, after the write head has advanced
produce_store(label, qq, oldWriteHead, numBytes) ==
  IF label = "p_stop"
    THEN [qq EXCEPT !.buffer = TPIPE_SET_INT32_AT_BUFFER(qq.buffer, qq.writeHead, HLP_STOP)]
    ELSE [qq EXCEPT !.buffer = TPIPE_SET_INT32_AT_BUFFER(qq.buffer, oldWriteHead, numBytes)]

produce_order_mutant == <<"p_hdr", "p_stop">>

\* program order of the two stores of produce, around the fence
produce_order == <<"p_stop", "p_hdr">>

\* the struct after tpipe_produce(q, numBytes), its assert holding
tpipe_produce(qq, numBytes) ==
  LET oldWriteHead == qq.writeHead
      q1 == produce_advance(qq, numBytes)
  IN  produce_store(produce_order[2],
        produce_store(produce_order[1], q1, oldWriteHead, numBytes),
        oldWriteHead, numBytes)

\* ------------------------------------------------------------------ tpipe_getReadBuffer, tpipe_consume

\* [numBytes |-> *numBytes, ret |-> offset of the read buffer]
tpipe_getReadBuffer(qq) ==
  [numBytes |-> TPIPE_GET_INT32_AT_BUFFER(qq.buffer, qq.readHead),
   ret      |-> qq.readHead + SizeofInt32]

consume_assert(qq) == TPIPE_GET_INT32_AT_BUFFER(qq.buffer, qq.readHead) # HLP_STOP

tpipe_consume_mutant(qq) ==
  [qq EXCEPT !.readHead =
               qq.readHead + SizeofInt32 + TPIPE_GET_INT32_AT_BUFFER(qq.buffer, qq.readHead),
             !.buffer = TPIPE_SET_INT32_AT_BUFFER(qq.buffer, qq.readHead, HLP_STOP)]

tpipe_consume(qq) ==
  [qq EXCEPT !.readHead =
     qq.readHead + SizeofInt32 + TPIPE_GET_INT32_AT_BUFFER(qq.buffer, qq.readHead)]

\* ------------------------------------------------------------------ tpipe_clear

tpipe_clear_mutant(qq) ==
  [qq EXCEPT !.writeHead = 0, !.readHead = 0, !.remainingBytes = qq.len]

tpipe_clear(qq) ==
  [qq EXCEPT !.writeHead = 0, !.readHead = 0, !.remainingBytes = qq.len,
             !.buffer = Memset0(qq.buffer)]

\* ------------------------------------------------------------------ tpipe_getTotalData

\* the while loop from p with len summed so far; fuel bounds the iterations
\* the model follows.  [end |-> "ret", ret |-> len], or "ub" when a header is
\* loaded outside the arena (a d beyond the arena length takes p there), or
\* "spin" when the loop does not end
RECURSIVE TotalDataLoop(_, _, _, _)
TotalDataLoop(qq, p, len, fuel) ==
  IF ~InArena(qq.len, p) THEN [end |-> "ub", ret |-> 0]
  ELSE IF fuel = 0 THEN [end |-> "spin", ret |-> 0]
  ELSE LET d == TPIPE_GET_INT32_AT_BUFFER(qq.buffer, p)
       IN  IF d = HLP_STOP THEN [end |-> "ret", ret |-> len]
           ELSE IF d = HLP_LOOP THEN TotalDataLoop(qq, 0, len, fuel - 1)
           ELSE IF d > qq.len THEN [end |-> "ub", ret |-> 0]
           ELSE TotalDataLoop(qq, p + (SizeofInt32 + d), len + d, fuel - 1)

tpipe_getTotalData(qq) == TotalDataLoop(qq, qq.readHead, 0, qq.len + 2)

\* ------------------------------------------------------------------ tpipe_write

\* [q |-> the struct afterwards, ret |-> 1 or 0, ok |-> produce's assert held]
tpipe_write(qq, data, numBytes) ==
  LET g == tpipe_getWriteBuffer(qq, numBytes)
  IN  IF g.ret = NULL THEN [q |-> g.q, ret |-> 0, ok |-> TRUE]
      ELSE LET q1 == [g.q EXCEPT !.buffer = Memcpy(g.q.buffer, g.ret, data)]
           IN  IF produce_assert(q1, numBytes)
                 THEN [q |-> tpipe_produce(q1, numBytes), ret |-> 1, ok |-> TRUE]
                 ELSE [q |-> q1, ret |-> 0, ok |-> FALSE]

\* ------------------------------------------------------------------ history

NoLocals == [n |-> 0, buf |-> NULL, d |-> 0, readHead |-> 0, oldWriteHead |-> 0]
ConsumerIdle == [x |-> 0, numBytes |-> 0, data |-> <<>>]

FrameEntry(off, len, d) == [kind |-> "frame", off |-> off, len |-> len, d |-> d]
LoopEntry(off) == [kind |-> "loop", off |-> off, len |-> 0, d |-> 0]

Call(op, arg, ret) == [op |-> op, arg |-> arg, ret |-> ret]

\* the script init(32); write 20 -> 1; write 20 -> 0; hasData -> 20;
\* getReadBuffer; consume; (hasData -> 0;) write 20; getTotalData
ScenStep(s, c) ==
  IF s = 0 /\ c.op = "write" /\ c.arg = ScenarioLen /\ c.ret = 1 THEN 1
  ELSE IF s = 1 /\ c.op = "write" /\ c.arg = ScenarioLen /\ c.ret = 0 THEN 2
  ELSE IF s = 2 /\ c.op = "hasData" /\ c.ret = ScenarioLen THEN 3
  ELSE IF s = 3 /\ c.op = "getReadBuffer" THEN 4
  ELSE IF s = 4 /\ c.op = "consume" THEN 5
  ELSE IF s = 5 /\ c.op = "hasData" /\ c.ret = 0 THEN 5
  ELSE IF s = 5 /\ c.op = "write" /\ c.arg = ScenarioLen THEN 6
  ELSE IF s = 6 /\ c.op = "getTotalData" THEN 7
  ELSE -1

Returns(c) == /\ last' = c
              /\ scen' = ScenStep(scen, c)

\* ------------------------------------------------------------------ the calls, each one step

Init ==
  /\ \E numBytes \in Capacities, g \in Garbage :
       /\ q = tpipe_init(numBytes, g)
       /\ scen = IF numBytes = ScenarioCap THEN 0 ELSE -1
  /\ ppc = "idle"
  /\ pl = NoLocals
  /\ cpc = "poll"
  /\ cl = ConsumerIdle
  /\ pending = <<>>
  /\ last = Call("init", 0, q.len)
  /\ status = "ok"

\* the producer calls tpipe_getWriteBuffer(q, n)
GetWriteBuffer(n) ==
  /\ status = "ok" /\ ppc = "idle"
  /\ LET g == tpipe_getWriteBuffer(q, n)
         way == gwb_decide(q, q.readHead, n)
     IN  /\ q' = g.q
         /\ ppc' = IF g.ret = NULL THEN "idle" ELSE "granted"
         /\ pl' = IF g.ret = NULL THEN NoLocals
                  ELSE [NoLocals EXCEPT !.n = n, !.buf = g.ret]
         /\ pending' = IF way = "wrap" THEN Append(pending, LoopEntry(q.writeHead))
                       ELSE pending
         /\ Returns(Call("getWriteBuffer", n, g.ret))
  /\ UNCHANGED <<cpc, cl, status>>

\* the producer writes its n payload bytes into the buffer it was given
Fill(d) ==
  /\ status = "ok" /\ ppc = "granted"
  /\ q' = [q EXCEPT !.buffer = Memcpy(q.buffer, pl.buf, Repeat(d, pl.n))]
  /\ pl' = [pl EXCEPT !.d = d]
  /\ ppc' = "filled"
  /\ scen' = -1
  /\ UNCHANGED <<cpc, cl, pending, last, status>>

\* the producer calls tpipe_produce(q, n), n as passed to getWriteBuffer
Produce ==
  /\ status = "ok" /\ ppc = "filled"
  /\ IF produce_assert(q, pl.n)
       THEN /\ q' = tpipe_produce(q, pl.n)
            /\ pending' = Append(pending, FrameEntry(q.writeHead, pl.n, pl.d))
            /\ ppc' = "idle"
            /\ pl' = NoLocals
            /\ Returns(Call("produce", pl.n, 0))
            /\ UNCHANGED status
       ELSE /\ status' = "aborted"
            /\ UNCHANGED <<q, pending, ppc, pl, last, scen>>
  /\ UNCHANGED <<cpc, cl>>

\* the producer calls tpipe_write(q, data, n)
Write(n, d) ==
  /\ status = "ok" /\ ppc = "idle"
  /\ LET r == tpipe_write(q, Repeat(d, n), n)
         way == gwb_decide(q, q.readHead, n)
         p1 == IF way = "wrap" THEN Append(pending, LoopEntry(q.writeHead)) ELSE pending
         at == IF way = "wrap" THEN 0 ELSE q.writeHead
     IN  /\ q' = r.q
         /\ pending' = IF r.ret = 1 THEN Append(p1, FrameEntry(at, n, d)) ELSE p1
         /\ status' = IF r.ok THEN "ok" ELSE "aborted"
         /\ Returns(Call("write", n, r.ret))
  /\ UNCHANGED <<ppc, pl, cpc, cl>>

\* the consumer calls tpipe_hasData(q)
HasData ==
  /\ status = "ok" /\ cpc = "poll"
  /\ LET r == tpipe_hasData(q)
     IN  /\ q' = r.q
         /\ cl' = [ConsumerIdle EXCEPT !.x = r.ret]
         /\ cpc' = IF r.ret > 0 THEN "read" ELSE "poll"
         /\ pending' = IF r.q.readHead # q.readHead /\ pending # <<>>
                          /\ Head(pending).kind = "loop"
                       THEN Tail(pending) ELSE pending
         /\ Returns(Call("hasData", 0, r.ret))
  /\ UNCHANGED <<ppc, pl, status>>

\* the consumer, told of data, calls tpipe_getReadBuffer(q, &numBytes) and reads
GetReadBuffer ==
  /\ status = "ok" /\ cpc = "read"
  /\ LET r == tpipe_getReadBuffer(q)
     IN  /\ cl' = [cl EXCEPT !.numBytes = r.numBytes,
                             !.data = IF r.numBytes >= 0 /\ r.ret + r.numBytes <= q.len
                                        THEN BytesAt(q.buffer, r.ret, r.numBytes)
                                        ELSE <<>>]
         /\ Returns(Call("getReadBuffer", 0, r.ret))
  /\ cpc' = "consume"
  /\ UNCHANGED <<q, ppc, pl, pending, status>>

\* the consumer calls tpipe_consume(q)
Consume ==
  /\ status = "ok" /\ cpc = "consume"
  /\ IF consume_assert(q)
       THEN /\ q' = tpipe_consume(q)
            /\ pending' = IF pending # <<>> /\ Head(pending).kind = "frame"
                          THEN Tail(pending) ELSE pending
            /\ cpc' = "poll"
            /\ cl' = ConsumerIdle
            /\ Returns(Call("consume", 0, 0))
            /\ UNCHANGED status
       ELSE /\ status' = "aborted"
            /\ UNCHANGED <<q, pending, cpc, cl, last, scen>>
  /\ UNCHANGED <<ppc, pl>>

\* tpipe_getTotalData(q), called while no other call is running
GetTotalData ==
  /\ status = "ok"
  /\ LET r == tpipe_getTotalData(q)
     IN  /\ status' = IF r.end = "ret" THEN "ok" ELSE r.end
         /\ Returns(Call("getTotalData", 0, r.ret))
  /\ UNCHANGED <<q, ppc, pl, cpc, cl, pending>>

\* tpipe_clear(q), called while neither side is in the middle of a frame
Clear ==
  /\ status = "ok" /\ ppc = "idle" /\ cpc = "poll"
  /\ q' = tpipe_clear(q)
  /\ pending' = <<>>
  /\ cl' = ConsumerIdle
  /\ Returns(Call("clear", Len(pending), 0))
  /\ UNCHANGED <<ppc, pl, cpc, status>>

Next ==
  \/ \E n \in Lens(q.len) : GetWriteBuffer(n)
  \/ \E d \in Data : Fill(d)
  \/ Produce
  \/ \E n \in Lens(q.len), d \in Data : Write(n, d)
  \/ HasData
  \/ GetReadBuffer
  \/ Consume
  \/ GetTotalData
  \/ Clear

Spec == Init /\ [][Next]_vars

\* ------------------------------------------------------------------ the calls, store by store

\* The producer's and the consumer's calls interleaved at their loads and
\* stores of shared memory, each side's in program order (the fences of
\* tinypipe.c keep the stores in that order).

\* getWriteBuffer: char *const readHead = q->readHead
GwbLoad(n) ==
  /\ status = "ok" /\ ppc = "idle"
  /\ pl' = [NoLocals EXCEPT !.n = n, !.readHead = q.readHead]
  /\ ppc' = "decide"
  /\ UNCHANGED <<q, cpc, cl, pending, last, status, scen>>

\* getWriteBuffer: the tests on the loaded read head; return, or start the wrap
GwbDecide ==
  /\ status = "ok" /\ ppc = "decide"
  /\ LET way == gwb_decide(q, pl.readHead, pl.n)
     IN  \/ /\ way = "null"
            /\ ppc' = "idle" /\ pl' = NoLocals
            /\ Returns(Call("getWriteBuffer", pl.n, NULL))
            /\ UNCHANGED q
         \/ /\ way = "tail"
            /\ ppc' = "granted"
            /\ pl' = [pl EXCEPT !.buf = q.writeHead + SizeofInt32]
            /\ Returns(Call("getWriteBuffer", pl.n, q.writeHead + SizeofInt32))
            /\ UNCHANGED q
         \/ /\ way = "wrap"
            /\ q' = wrap_reset(q)
            /\ pl' = [pl EXCEPT !.oldWriteHead = q.writeHead]
            /\ ppc' = "w1"
            /\ UNCHANGED <<last, scen>>
  /\ UNCHANGED <<cpc, cl, pending, status>>

\* getWriteBuffer: the next store of the wrap path; return after the second
WrapStore ==
  /\ status = "ok" /\ ppc \in {"w1", "w2"}
  /\ LET label == IF ppc = "w1" THEN wrap_order[1] ELSE wrap_order[2]
     IN  /\ q' = wrap_store(label, q, pl.oldWriteHead)
         /\ pending' = IF label = "w_loop" THEN Append(pending, LoopEntry(pl.oldWriteHead))
                       ELSE pending
  /\ IF ppc = "w1"
       THEN /\ ppc' = "w2"
            /\ UNCHANGED <<pl, last, scen>>
       ELSE /\ ppc' = "granted"
            /\ pl' = [pl EXCEPT !.buf = 0 + SizeofInt32]
            /\ Returns(Call("getWriteBuffer", pl.n, 0 + SizeofInt32))
  /\ UNCHANGED <<cpc, cl, status>>

\* produce: the assert, remainingBytes and writeHead
ProduceBegin ==
  /\ status = "ok" /\ ppc = "filled"
  /\ IF produce_assert(q, pl.n)
       THEN /\ q' = produce_advance(q, pl.n)
            /\ pl' = [pl EXCEPT !.oldWriteHead = q.writeHead]
            /\ ppc' = "p1"
            /\ UNCHANGED status
       ELSE /\ status' = "aborted"
            /\ UNCHANGED <<q, pl, ppc>>
  /\ UNCHANGED <<cpc, cl, pending, last, scen>>

\* produce: its next store; return after the second
ProduceStore ==
  /\ status = "ok" /\ ppc \in {"p1", "p2"}
  /\ LET label == IF ppc = "p1" THEN produce_order[1] ELSE produce_order[2]
     IN  /\ q' = produce_store(label, q, pl.oldWriteHead, pl.n)
         /\ pending' = IF label = "p_hdr"
                         THEN Append(pending, FrameEntry(pl.oldWriteHead, pl.n, pl.d))
                         ELSE pending
  /\ IF ppc = "p1"
       THEN /\ ppc' = "p2"
            /\ UNCHANGED <<pl, last, scen>>
       ELSE /\ ppc' = "idle"
            /\ pl' = NoLocals
            /\ Returns(Call("produce", pl.n, 0))
  /\ UNCHANGED <<cpc, cl, status>>

\* hasData: int x = load at q->readHead; return unless it is LOOP
HasDataLoad ==
  /\ status = "ok" /\ cpc = "poll"
  /\ LET x == TPIPE_GET_INT32_AT_BUFFER(q.buffer, q.readHead)
     IN  IF x = HLP_LOOP
           THEN /\ cpc' = "jump"
                /\ UNCHANGED <<cl, last, scen>>
           ELSE /\ cl' = [ConsumerIdle EXCEPT !.x = x]
                /\ cpc' = IF x > 0 THEN "read" ELSE "poll"
                /\ Returns(Call("hasData", 0, x))
  /\ UNCHANGED <<q, ppc, pl, pending, status>>

\* hasData: q->readHead = q->buffer
HasDataJump ==
  /\ status = "ok" /\ cpc = "jump"
  /\ q' = hasData_jump(q)
  /\ pending' = IF pending # <<>> /\ Head(pending).kind = "loop"
                THEN Tail(pending) ELSE pending
  /\ cpc' = "reload"
  /\ UNCHANGED <<ppc, pl, cl, last, status, scen>>

\* hasData: x = load at q->readHead; return x
HasDataReload ==
  /\ status = "ok" /\ cpc = "reload"
  /\ LET x == TPIPE_GET_INT32_AT_BUFFER(q.buffer, q.readHead)
     IN  /\ cl' = [ConsumerIdle EXCEPT !.x = x]
         /\ cpc' = IF x > 0 THEN "read" ELSE "poll"
         /\ Returns(Call("hasData", 0, x))
  /\ UNCHANGED <<q, ppc, pl, pending, status>>

ConcNext ==
  \/ \E n \in Lens(q.len) : GwbLoad(n)
  \/ GwbDecide
  \/ WrapStore
  \/ \E d \in Data : Fill(d)
  \/ ProduceBegin
  \/ ProduceStore
  \/ HasDataLoad
  \/ HasDataJump
  \/ HasDataReload
  \/ GetReadBuffer
  \/ Consume

ConcSpec == Init /\ [][ConcNext]_vars

\* ------------------------------------------------------------------ what the claims speak of

\* the frames published and not yet consumed, oldest first
Frames == SelectSeq(pending, LAMBDA e : e.kind = "frame")

\* every frame published and not yet consumed has at least one payload byte
NoZeroFrames == \A i \in DOMAIN pending : pending[i].kind = "frame" => pending[i].len >= 1

\* the bytes an entry of pending occupies: header and payload, or the LOOP marker
Extent(e) == e.off .. (e.off + SizeofInt32 + e.len - 1)

\* the bytes the producer writes for the buffer it holds: header, payload, trailing STOP
GrantedRegion == q.writeHead .. (q.writeHead + pl.n + 2 * SizeofInt32 - 1)

RECURSIVE SumLen(_)
SumLen(s) == IF s = <<>> THEN 0 ELSE Head(s).len + SumLen(Tail(s))

\* ------------------------------------------------------------------ C1

\* C1: FIFO order.  While every written frame has at least one payload byte,
\* what the consumer obtains with hasData > 0, getReadBuffer is the oldest
\* frame written and not yet consumed, with its length and its bytes, and
\* hasData reports that frame as long as there is one (no frame is lost).
C1_Fifo ==
  (status = "ok" /\ NoZeroFrames) =>
    /\ tpipe_hasData(q).ret = IF Frames = <<>> THEN 0 ELSE Head(Frames).len
    /\ cpc = "consume" =>
         /\ Frames # <<>>
         /\ cl.numBytes = Head(Frames).len
         /\ cl.data = Repeat(Head(Frames).d, Head(Frames).len)

\* ------------------------------------------------------------------ C2

\* C2: no-overwrite.  Whenever getWriteBuffer(n) has returned a buffer, the
\* n + 8 bytes the producer then writes (header, payload, trailing STOP)
\* overlap no byte of an unconsumed frame and no LOOP marker the consumer has
\* still to follow.  Stated here for payloads of at least one byte, a part of
\* the claim's "every n >= 0".
C2_NoOverwrite ==
  (status = "ok" /\ ppc \in {"granted", "filled"} /\ pl.n >= 1 /\ NoZeroFrames) =>
    \A i \in DOMAIN pending : GrantedRegion \cap Extent(pending[i]) = {}

\* ------------------------------------------------------------------ C3

\* the frame f, first of pending, stands whole at offset a: its header, its
\* payload bytes, and after them STOP or what was published next
PublishedAt(a) ==
  /\ pending # <<>>
  /\ LET f == Head(pending)
         after == a + SizeofInt32 + f.len
         y == TPIPE_GET_INT32_AT_BUFFER(q.buffer, after)
     IN  /\ f.kind = "frame" /\ f.off = a
         /\ TPIPE_GET_INT32_AT_BUFFER(q.buffer, a) = f.len
         /\ BytesAt(q.buffer, a + SizeofInt32, f.len) = Repeat(f.d, f.len)
         /\ \/ y = HLP_STOP
            \/ /\ Len(pending) >= 2
               /\ pending[2].off = after
               /\ y = IF pending[2].kind = "loop" THEN HLP_LOOP ELSE pending[2].len

C4_WrapOrdering ==
  (status = "ok" /\ cpc \in {"jump", "reload"}) =>
    LET y == TPIPE_GET_INT32_AT_BUFFER(q.buffer, 0)
        rest == IF cpc = "jump" /\ pending # <<>> THEN Tail(pending) ELSE pending
    IN  \/ y = HLP_STOP /\ (rest # <<>> => (rest[1].off = 0 /\ rest[1].len = 0))
        \/ /\ y > 0
           /\ rest # <<>> /\ rest[1].kind = "frame" /\ rest[1].off = 0 /\ rest[1].len = y
           /\ BytesAt(q.buffer, SizeofInt32, y) = Repeat(rest[1].d, y)

\* the consumer has followed a LOOP marker and stands at offset 0 while the
\* producer is between the two stores of the wrapped frame's produce
C4_Witness ==
  /\ status = "ok" /\ cpc = "reload" /\ ppc = "p2"
  /\ q.readHead = 0 /\ pl.oldWriteHead = 0
  /\ TPIPE_GET_INT32_AT_BUFFER(q.buffer, 0) = HLP_STOP

\* ------------------------------------------------------------------ C5

\* the claim's precondition on getWriteBuffer(n)
WrapCase(n) ==
  /\ q.writeHead >= q.readHead
  /\ n + 2 * SizeofInt32 > q.remainingBytes
  /\ n + 2 * SizeofInt32 <= q.readHead

\* the wrapped frame is the newest thing published and everything before the
\* LOOP marker has been consumed
WrappedFrameNext ==
  /\ Len(pending) = 2
  /\ pending[1].kind = "loop"
  /\ pending[2].kind = "frame" /\ pending[2].off = 0

C6_ScenarioC ==
  /\ scen = 6 => last.ret = 1
  /\ scen = 7 => last.ret = ScenarioLen

\* ------------------------------------------------------------------ C7

\* nothing is queued and neither side is inside a call: no step but the
\* producer's retry can change q, and a NULL return leaves q as it was
Drained == status = "ok" /\ ppc = "idle" /\ cpc = "poll" /\ pending = <<>>

\* C7: a NULL from getWriteBuffer(n), n + 8 <= capacity, is never permanent.
\* Once the fair consumer has drained the queue the producer's retry is the
\* only call left that can change anything, so the retry has to succeed there.
C7_RetrySucceeds ==
  Drained =>
    \A n \in Lens(q.len) :
       n + 2 * SizeofInt32 <= q.len => tpipe_getWriteBuffer(q, n).ret # NULL

\* ------------------------------------------------------------------ C8

\* C8: in every quiescent state getTotalData ends and returns the sum of the
\* payload lengths of the frames published and not yet consumed.  Stated here
\* for frames of at least one byte.
C8_TotalData ==
  (status = "ok" /\ ppc = "idle" /\ NoZeroFrames) =>
    tpipe_getTotalData(q) = [end |-> "ret", ret |-> SumLen(Frames)]

\* ------------------------------------------------------------------ C9

\* C9: hasData returns the payload length of the oldest unconsumed frame, 0
\* when there is none, never a negative value, and changes nothing but the
\* read cursor, which it moves from a LOOP marker to the arena start.  Stated
\* here for frames of at least one byte.
C9_HasData ==
  (status = "ok" /\ NoZeroFrames) =>
    LET h == tpipe_hasData(q)
    IN  /\ h.ret >= 0
        /\ Frames # <<>> => h.ret = Head(Frames).len
        /\ Frames = <<>> => h.ret = 0
        /\ \/ h.q = q
           \/ /\ TPIPE_GET_INT32_AT_BUFFER(q.buffer, q.readHead) = HLP_LOOP
              /\ h.q = [q EXCEPT !.readHead = 0]

\* ------------------------------------------------------------------ C10

\* C10: clear leaves the struct a freshly initialised queue of the same
\* capacity has (with an arena of zeros), and both sides where they start:
\* hasData and getTotalData return 0, and a second clear changes nothing.
C10_Clear ==
  last.op = "clear" =>
    /\ q = tpipe_init(q.len, 0)
    /\ q.writeHead = 0 /\ q.readHead = 0 /\ q.remainingBytes = q.len
    /\ \A i \in DOMAIN q.buffer : q.buffer[i] = 0
    /\ tpipe_hasData(q) = [q |-> q, ret |-> 0]
    /\ tpipe_getTotalData(q) = [end |-> "ret", ret |-> 0]
    /\ tpipe_clear(q) = q
    /\ ppc = "idle" /\ pl = NoLocals /\ cpc = "poll" /\ cl = ConsumerIdle
    /\ pending = <<>> /\ status = "ok"

\* clear has run on a queue that held unconsumed frames behind a wrap
C10_Witness ==
  /\ last.op = "clear" /\ last.arg >= 3
  /\ q.writeHead = 0 /\ q.readHead = 0

\* ------------------------------------------------------------------ calls outside the protocol

INT_MAX == 2147483647

\* byte counts the producer may commit after a grant of n
Commits(n) == {m \in (n - 1)..(n + 1) : m >= 0}

\* byte counts beyond every frame the arena can hold
BigLens(numBytes) == {numBytes - 7, numBytes, INT_MAX}

\* the producer calls tpipe_produce(q, m), whatever n it was granted; produce
\* returns nothing, and the call record keeps n in its ret field.  An m
\* beyond n that the assert lets through ends the run ("misused")
ProduceM(m) ==
  /\ status = "ok" /\ ppc = "filled"
  /\ IF produce_assert(q, m)
       THEN /\ q' = tpipe_produce(q, m)
            /\ IF m <= pl.n
                 THEN /\ pending' = Append(pending, FrameEntry(q.writeHead, m, pl.d))
                      /\ ppc' = "idle"
                      /\ pl' = NoLocals
                      /\ UNCHANGED status
                 ELSE /\ status' = "misused"
                      /\ UNCHANGED <<pending, ppc, pl>>
       ELSE /\ status' = "aborted"
            /\ UNCHANGED <<q, pending, ppc, pl>>
  /\ last' = Call("produce", m, pl.n)
  /\ scen' = -1
  /\ UNCHANGED <<cpc, cl>>

\* the consumer calls tpipe_consume(q) without asking tpipe_hasData first; the
\* call record keeps the read offset before the call and the header loaded.
\* A header the assert lets through that is no frame length ends the run
ConsumeNow ==
  /\ status = "ok"
  /\ LET x == TPIPE_GET_INT32_AT_BUFFER(q.buffer, q.readHead)
     IN  /\ IF consume_assert(q)
              THEN /\ q' = tpipe_consume(q)
                   /\ IF x > 0 /\ InArena(q.len, q.readHead + SizeofInt32 + x)
                        THEN /\ pending' = IF pending # <<>> /\ Head(pending).kind = "frame"
                                           THEN Tail(pending) ELSE pending
                             /\ UNCHANGED status
                        ELSE /\ status' = "misused"
                             /\ UNCHANGED pending
              ELSE /\ status' = "aborted"
                   /\ UNCHANGED <<q, pending>>
         /\ last' = Call("consume", q.readHead, x)
  /\ scen' = -1
  /\ cpc' = "poll"
  /\ cl' = ConsumerIdle
  /\ UNCHANGED <<ppc, pl>>

\* the producer asks for more bytes than any frame of this arena has; a grant
\* names a region that is not there, and the run ends
GetWriteBufferBig(n) ==
  /\ status = "ok" /\ ppc = "idle"
  /\ LET g == tpipe_getWriteBuffer(q, n)
     IN  /\ q' = g.q
         /\ status' = IF g.ret = NULL THEN "ok" ELSE "misused"
         /\ last' = Call("getWriteBuffer", n, g.ret)
  /\ scen' = -1
  /\ UNCHANGED <<ppc, pl, cpc, cl, pending>>

AnyCallNext ==
  \/ \E n \in Lens(q.len) : GetWriteBuffer(n)
  \/ \E n \in BigLens(q.len) : GetWriteBufferBig(n)
  \/ \E d \in Data : Fill(d)
  \/ \E m \in Commits(pl.n) : ProduceM(m)
  \/ HasData
  \/ GetReadBuffer
  \/ ConsumeNow
  \/ Clear

AnyCallSpec == Init /\ [][AnyCallNext]_vars

\* ------------------------------------------------------------------ C11

C12_ConsumeAssert ==
  last.op = "consume" =>
    IF last.ret > 0
      THEN status # "aborted" /\ q.readHead = last.arg + SizeofInt32 + last.ret
      ELSE status = "aborted" /\ q.readHead = last.arg

\* ------------------------------------------------------------------ C20

\* C20: a request of n bytes with n + 8 > capacity is refused in every state,
\* and right after tpipe_init or tpipe_clear every n >= 0 with
\* n + 8 <= capacity is granted at arena start + 4
C20_CapacityBound ==
  /\ (last.op = "getWriteBuffer" /\ last.arg > q.len - 2 * SizeofInt32)
       => last.ret = NULL
  /\ (status = "ok" /\ last.op \in {"init", "clear"})
       => \A n \in 0..(q.len - 2 * SizeofInt32) :
            tpipe_getWriteBuffer(q, n).ret = 0 + SizeofInt32

\* ------------------------------------------------------------------ C13

\* C13: a write that reports success has published a header that is a
\* positive length, never one equal to a sentinel
C13_NoSentinelLength ==
  (status = "ok" /\ ((last.op = "write" /\ last.ret = 1) \/ last.op = "produce")) =>
    /\ pending # <<>>
    /\ LET f == pending[Len(pending)]
       IN  /\ f.kind = "frame"
           /\ TPIPE_GET_INT32_AT_BUFFER(q.buffer, f.off) > 0

\* ------------------------------------------------------------------ C16

\* C16: after every completed call remainingBytes is the capacity minus the
\* write offset, so it is the capacity exactly when the write head is at the
\* arena start
C16_RemainingBytes ==
  status = "ok" => q.remainingBytes = q.len - q.writeHead

\* the write head has wrapped and a frame has been produced after the wrap
C16_Witness ==
  /\ status = "ok" /\ last.op \in {"produce", "write"}
  /\ 0 < q.writeHead /\ q.writeHead < q.readHead

\* ------------------------------------------------------------------ C17

ProducerCall ==
  \/ \E n \in Lens(q.len) : GetWriteBuffer(n)
  \/ \E d \in Data : Fill(d)
  \/ Produce
  \/ \E n \in Lens(q.len), d \in Data : Write(n, d)

ConsumerCall == HasData \/ GetReadBuffer \/ Consume

\* C17: producer calls leave the read head alone; consumer calls and
\* tpipe_getTotalData leave the write head, remainingBytes and every arena
\* byte alone; tpipe_getReadBuffer and tpipe_getTotalData leave the whole
\* struct and arena alone.  Each line is the contrapositive: a step that
\* changes the field is no step of those calls
C17_CursorOwnership ==
  [][ /\ q'.readHead # q.readHead => ~ProducerCall
      /\ ( \/ q'.writeHead # q.writeHead
           \/ q'.remainingBytes # q.remainingBytes
           \/ q'.buffer # q.buffer
           \/ q'.len # q.len ) => ~(ConsumerCall \/ GetTotalData)
      /\ q' # q => ~(GetReadBuffer \/ GetTotalData) ]_vars

\* the consumer has consumed a frame while the producer holds a filled grant
C17_Witness ==
  /\ status = "ok" /\ last.op = "consume"
  /\ ppc = "filled" /\ q.readHead > 0

\* ------------------------------------------------------------------ C18

\* C18: a tpipe_getWriteBuffer that returns NULL and a tpipe_write that
\* returns 0 leave both heads, remainingBytes and every arena byte as they
\* were; in the 32-byte arena holding one unconsumed 20-byte frame the second
\* 20-byte write returns 0 and the queue is as the first write left it
C18_FailureUnchanged ==
  /\ (status = "ok" /\ ppc = "idle") =>
       \A n \in 0..(q.len + 1) :
         /\ LET g == tpipe_getWriteBuffer(q, n)
            IN  g.ret = NULL => g.q = q
         /\ LET w == tpipe_write(q, Repeat(1, n), n)
            IN  (w.ok /\ w.ret = 0) => w.q = q
  /\ scen = 2 =>
       /\ last = Call("write", ScenarioLen, 0)
       /\ q.writeHead = SizeofInt32 + ScenarioLen
       /\ q.readHead = 0
       /\ q.remainingBytes = q.len - (SizeofInt32 + ScenarioLen)
       /\ TPIPE_GET_INT32_AT_BUFFER(q.buffer, 0) = ScenarioLen
       /\ TPIPE_GET_INT32_AT_BUFFER(q.buffer, q.writeHead) = HLP_STOP
       /\ \E d \in Data :
            /\ pending = <<FrameEntry(0, ScenarioLen, d)>>
            /\ BytesAt(q.buffer, SizeofInt32, ScenarioLen) = Repeat(d, ScenarioLen)

\* the second 20-byte write into the 32-byte arena has just been refused
C18_Witness ==
  /\ scen = 2 /\ status = "ok"
  /\ last = Call("write", ScenarioLen, 0)

\* ------------------------------------------------------------------ a 20-byte arena, store by store

MidCap == 20

InitMid ==
  /\ \E g \in Garbage : q = tpipe_init(MidCap, g)
  /\ scen = -1
  /\ ppc = "idle"
  /\ pl = NoLocals
  /\ cpc = "poll"
  /\ cl = ConsumerIdle
  /\ pending = <<>>
  /\ last = Call("init", 0, q.len)
  /\ status = "ok"

ConcMidSpec == InitMid /\ [][ConcNext]_vars

\* ------------------------------------------------------------------ C14

\* the decision getWriteBuffer takes on the read head it loaded is the one it
\* would take on the read head as it is now, or else it is a refusal
StaleDecision ==
  (status = "ok" /\ ppc = "decide") =>
    LET stale == gwb_decide(q, pl.readHead, pl.n)
    IN  stale # "null" => gwb_decide(q, q.readHead, pl.n) = stale

\* C14: with the read head loaded by getWriteBuffer in a step of its own and
\* the consumer running on before the decision, a grant is one the current
\* read head allows too, and the n + 8 bytes of a granted region overlap no
\* frame that is published and not yet consumed.  Stated for payloads of at
\* least one byte
C14_StaleGrant ==
  /\ StaleDecision
  /\ (status = "ok" /\ ppc \in {"granted", "filled"} /\ pl.n >= 1 /\ NoZeroFrames) =>
       \A i \in DOMAIN pending :
         pending[i].kind = "frame" => GrantedRegion \cap Extent(pending[i]) = {}

\* ------------------------------------------------------------------ C15

\* the walk from offset p by the headers in the arena meets exactly the
\* entries s, each a positive length or a LOOP marker, and then STOP
RECURSIVE Chain(_, _)
Chain(p, s) ==
  /\ InArena(q.len, p)
  /\ LET x == TPIPE_GET_INT32_AT_BUFFER(q.buffer, p)
     IN  IF s = <<>> THEN x = HLP_STOP
         ELSE LET e == Head(s)
              IN  /\ e.off = p
                  /\ IF e.kind = "loop"
                       THEN x = HLP_LOOP /\ Chain(0, Tail(s))
                       ELSE x = e.len /\ x > 0 /\ Chain(p + SizeofInt32 + x, Tail(s))

LoopMarkers == {i \in DOMAIN pending : pending[i].kind = "loop"}

\* C15: in every state, between the stores of produce and of the wrap path
\* too, the walk from the read head by the header values meets only the
\* lengths of the published frames and LOOP markers, stays in the arena and
\* ends at a STOP; with the write head behind the read head the walk passes
\* exactly one LOOP marker (this part stated outside the two stores of the
\* wrap path).  Stated while every frame, the one being written too, has at
\* least one payload byte
C15_Chain ==
  (status = "ok" /\ NoZeroFrames /\ (ppc = "idle" \/ pl.n >= 1)) =>
    /\ Chain(q.readHead, pending)
    /\ (q.writeHead < q.readHead /\ ppc \notin {"w1", "w2"}) =>
         Cardinality(LoopMarkers) = 1

\* ------------------------------------------------------------------ every capacity tpipe_init accepts

\* assert(numBytes > 0) is all tpipe_init asks of the capacity
AcceptedCaps == 1..SmallCap

\* tpipe_init stores the first STOP in the 4 bytes at the arena start: in an
\* arena of fewer than 4 bytes the store runs past the malloc'd block, and
\* what the program does from there is not defined
InitAny ==
  /\ \E numBytes \in AcceptedCaps, g \in Garbage :
       /\ q = tpipe_init(numBytes, g)
       /\ status = IF InArena(numBytes, 0) THEN "ok" ELSE "ub"
  /\ scen = -1
  /\ ppc = "idle"
  /\ pl = NoLocals
  /\ cpc = "poll"
  /\ cl = ConsumerIdle
  /\ pending = <<>>
  /\ last = Call("init", 0, q.len)

AnyCapSpec == InitAny /\ [][Next]_vars

\* ------------------------------------------------------------------ C19

\* C19: for every capacity > 0 and every sequence of calls within the
\* protocol, the 4 bytes at the write head and the 4 bytes at the read head,
\* where every header and sentinel is loaded and stored, lie within the
\* arena, and so does every payload region granted
C19_ArenaBounds ==
  /\ InArena(q.len, q.writeHead)
  /\ InArena(q.len, q.readHead)
  /\ ppc \in {"granted", "filled"} => (0 <= pl.buf /\ pl.buf + pl.n <= q.len)

====
